---- MODULE Spec2Model ----
(***************************************************************************)
(* Query resolution of the movie search engine (src/src/search.py).        *)
(*                                                                         *)
(* A Search session holds the word index, the year index, num_results,     *)
(* no_result_message and the top-rated list computed by the constructor.   *)
(* perform_search tries the full-query match, then the date parse (year    *)
(* lookup), then the chunked match, then the keyword union, and ends with  *)
(* the no-result message.  Strings are sequences of one-character strings, *)
(* so that lower() and split() are computed, not assumed.                  *)
(*                                                                         *)
(* The helpers imported from src.utils.search_utils and the Index class    *)
(* are not part of the available source; they are modelled from the        *)
(* specification's sections 3, 4.1, 4.2 and 4.3.                           *)
(***************************************************************************)
EXTENDS Integers, Sequences, FiniteSets

\* ------------------------------------------------------------------ bounds

\* Longest query string, in characters.
MaxLen == 3
\* Largest catalog, in movies.
MaxMovies == 2
\* Largest num_results a session is constructed with.
MaxResults == 2

\* ----------------------------------------------------------------- strings

Chars == {"a", "A", "1", " "}
Digits == {"1"}

StrOfLen(n) == [1..n -> Chars]
Queries == UNION {StrOfLen(n) : n \in 0..MaxLen}

\* str.lower(), character by character.
LowerChar(c) == IF c = "A" THEN "a" ELSE c
Lower(s) == [i \in 1..Len(s) |-> LowerChar(s[i])]

\* str.split() with no argument: the maximal runs of non-whitespace characters,
\* in order; leading, trailing and repeated whitespace yields no empty token.
RECURSIVE SplitFrom(_, _, _)
SplitFrom(s, i, cur) ==
    IF i > Len(s)
    THEN IF cur = <<>> THEN <<>> ELSE <<cur>>
    ELSE IF s[i] = " "
         THEN IF cur = <<>>
              THEN SplitFrom(s, i + 1, <<>>)
              ELSE <<cur>> \o SplitFrom(s, i + 1, <<>>)
         ELSE SplitFrom(s, i + 1, Append(cur, s[i]))
Split(s) == SplitFrom(s, 1, <<>>)

Range(f) == {f[i] : i \in DOMAIN f}

\* s occurs in t as a contiguous substring.
IsSubstring(s, t) ==
    \E i \in 0..(Len(t) - Len(s)) : \A j \in 1..Len(s) : t[i + j] = s[j]

\* A finite set of integers as the list of its elements in ascending order.
RECURSIVE SetToSeq(_)
SetToSeq(S) ==
    IF S = {} THEN <<>>
    ELSE LET m == CHOOSE x \in S : \A y \in S : x <= y
         IN <<m>> \o SetToSeq(S \ {m})

\* The first n elements of a list: list[:n].
Take(s, n) == IF Len(s) <= n THEN s ELSE SubSeq(s, 1, n)

\* ----------------------------------------------------------------- catalog

\* An optional value: <<>> is None, <<v>> is the value v.
None == <<>>
Some(v) == <<v>>

RatingValues == {1, 2}
RatingOptions == {None} \cup {Some(r) : r \in RatingValues}
Titles == {<<"A", " ", "1">>, <<"a", "1">>, <<"a">>}
\* Every movie of the catalog is released in year 1: the year index has that
\* one entry, and every other year a date names has none.
Years == {1}

\* A movie: its identity is its position in the catalog.
Movie == [title : Titles, year : Years, rating_value : RatingOptions]
Catalogs == UNION {[1..k -> Movie] : k \in 0..MaxMovies}

\* The word index of a catalog: each lower-cased word token of a title, mapped
\* to the movies (in catalog order, each once) whose title contains it.
TitleTokens(cat, m) == Range(Split(Lower(cat[m].title)))
BuildIndex(cat) ==
    LET keys == UNION {TitleTokens(cat, m) : m \in DOMAIN cat}
    IN [k \in keys |-> SetToSeq({m \in DOMAIN cat : k \in TitleTokens(cat, m)})]

\* The year index of a catalog: each release year, mapped to its movies.
BuildYearIndex(cat) ==
    LET ys == {cat[m].year : m \in DOMAIN cat}
    IN [y \in ys |-> SetToSeq({m \in DOMAIN cat : cat[m].year = y})]

\* ------------------------------------------------------------------ ranker

\* The secondary key of the ranker.  The ranking applies a deterministic
\* secondary key to movies of equal rating; which key is the ranker's
\* choice, fixed for a build: the order of the input list, or the title.
TieBreaks == {"input_order", "title"}

VARIABLE tie_break      \* the secondary key the ranker of this build applies

\* The order of strings: by character code, a proper prefix first.
CharCode(c) ==
    CASE c = " " -> 32 [] c = "1" -> 49 [] c = "A" -> 65 [] c = "a" -> 97
RECURSIVE StrLess(_, _)
StrLess(s, t) ==
    IF t = <<>> THEN FALSE
    ELSE IF s = <<>> THEN TRUE
    ELSE IF Head(s) = Head(t) THEN StrLess(Tail(s), Tail(t))
    ELSE CharCode(Head(s)) < CharCode(Head(t))

\* The ranking order of rated movies: a goes strictly before b when its
\* rating is higher, or when the ratings are equal and the secondary key
\* puts it first.  Movies the key does not separate stay in input order.
RatingOf(cat, m) == cat[m].rating_value
Before(cat, a, b) ==
    \/ RatingOf(cat, a)[1] > RatingOf(cat, b)[1]
    \/ /\ RatingOf(cat, a)[1] = RatingOf(cat, b)[1]
       /\ tie_break = "title"
       /\ StrLess(cat[a].title, cat[b].title)

\* Insert m, which precedes every movie of sorted in the input, into a list
\* that is already in ranking order.
RECURSIVE Insert(_, _, _)
Insert(cat, m, sorted) ==
    IF sorted = <<>> THEN <<m>>
    ELSE IF Before(cat, Head(sorted), m)
         THEN <<Head(sorted)>> \o Insert(cat, m, Tail(sorted))
         ELSE <<m>> \o sorted

RECURSIVE SortSeq(_, _)
SortSeq(cat, ms) ==
    IF ms = <<>> THEN <<>> ELSE Insert(cat, Head(ms), SortSeq(cat, Tail(ms)))

HasRating(cat, m) == RatingOf(cat, m) # None

\* sort_by_rating(movies, num_results): the movies without a rating value are
\* filtered out, the others are sorted by descending rating with the
\* secondary key, and the list is cut to num_results.
SortByRating(cat, ms, n) ==
    Take(SortSeq(cat, SelectSeq(ms, LAMBDA m : HasRating(cat, m))), n)

\* -------------------------------------------------------- match strategies

\* perform_full_query_search(index, query): the movies under the key that is
\* the whole query, lower-cased as the index keys are.
PerformFullQuerySearch(idx, q) ==
    IF Lower(q) \in DOMAIN idx THEN idx[Lower(q)] ELSE <<>>

\* try_parse_date(query): the query as a calendar date, None when it is not
\* one.  A date is written as its year, a non-empty string of digits; only
\* the year of the date is used.
DigitValue(c) == IF c = "1" THEN 1 ELSE 0
RECURSIVE DecimalValue(_)
DecimalValue(s) ==
    IF s = <<>> THEN 0
    ELSE 10 * DecimalValue(SubSeq(s, 1, Len(s) - 1)) + DigitValue(s[Len(s)])
TryParseDate(q) ==
    IF Len(q) > 0 /\ \A i \in 1..Len(q) : q[i] \in Digits
    THEN Some([year |-> DecimalValue(q)])
    ELSE None

\* perform_chunked_query_search(index, query): the movies of every index key
\* that contains the lower-cased query as a substring; an empty query matches
\* nothing.
PerformChunkedQuerySearch(idx, q) ==
    IF Len(q) = 0 THEN <<>>
    ELSE SetToSeq(UNION {Range(idx[k]) :
                         k \in {x \in DOMAIN idx : IsSubstring(Lower(q), x)}})

\* Variant: the keyword set of the query split without lower-casing it.
KeywordResultSet_no_lower(idx, q) ==
    LET words == Split(q)
    IN UNION {Range(idx[words[i]]) :
              i \in {j \in 1..Len(words) : words[j] \in DOMAIN idx}}

\* The set comprehension of the keyword search: every movie of every
\* lower-cased whitespace-delimited token of the query that is an index key.
KeywordResultSet(idx, q) ==
    LET words == Split(Lower(q))
    IN UNION {Range(idx[words[i]]) :
              i \in {j \in 1..Len(words) : words[j] \in DOMAIN idx}}

\* list(result_set): a set is listed in the order of its hash table, which
\* is not the catalog order and differs from session to session; every
\* listing of the elements, each once, is a list the call can produce.
ListOfSet(S) == {l \in [1..Cardinality(S) -> S] : Range(l) = S}

\* Variant: the keyword candidates as a list comprehension gives them, one
\* entry per token and movie, a movie of two tokens twice.
RECURSIVE ConcatBuckets(_, _)
ConcatBuckets(idx, words) ==
    IF words = <<>> THEN <<>>
    ELSE (IF Head(words) \in DOMAIN idx THEN idx[Head(words)] ELSE <<>>)
         \o ConcatBuckets(idx, Tail(words))
KeywordCandidates_per_token(idx, q) == {ConcatBuckets(idx, Split(Lower(q)))}

\* The lists of candidates the keyword search can hand to the ranker.
KeywordCandidates(idx, q) == ListOfSet(KeywordResultSet(idx, q))

\* ------------------------------------------------------------------- state

VARIABLES
    movies,             \* the catalog the session was built from (index.movies)
    index,              \* self.index: word -> list of movies
    year_index,         \* self.year_index: year -> list of movies
    num_results,        \* self.num_results
    no_result_message,  \* self.no_result_message
    top_rated_movies,   \* self.top_rated_movies
    call,               \* the last call made on the session
    steps,              \* the strategies the last call consulted, in order
    cand,               \* the match list of the strategy that answered
    out                 \* what the last call handed to the result sink

session == <<movies, index, year_index, num_results, no_result_message,
             top_rated_movies>>
vars == <<movies, index, year_index, num_results, no_result_message,
          top_rated_movies, call, steps, cand, out, tie_break>>

DefaultNoResultMessage == "No results found"

\* What the result sink receives.  print_results gets a ranked list and the
\* limit; print_no_result_message gets the message and the top-rated list; the
\* year lookup is given neither of the latter two.
NoOutput ==
    [kind |-> "none", list |-> <<>>, limit |-> 0, msg |-> "", has_top |-> FALSE,
     top |-> <<>>]
PrintResults(ranked, n) ==
    [kind |-> "results", list |-> ranked, limit |-> n, msg |-> "",
     has_top |-> FALSE, top |-> <<>>]
PrintNoResultMessage(msg, top) ==
    [kind |-> "no_result", list |-> <<>>, limit |-> 0, msg |-> msg,
     has_top |-> TRUE, top |-> top]
YearNoResult ==
    [kind |-> "no_result", list |-> <<>>, limit |-> 0, msg |-> "",
     has_top |-> FALSE, top |-> <<>>]

\* Search.__init__: the top-rated list is the ranking of the rated movies.
RatedMovies(cat) ==
    SelectSeq([m \in 1..Len(cat) |-> m], LAMBDA m : HasRating(cat, m))
TopRatedMovies(cat, n) == SortByRating(cat, RatedMovies(cat), n)

Init ==
    \E cat \in Catalogs, n \in 1..MaxResults, key \in TieBreaks :
        /\ tie_break = key
        /\ movies = cat
        /\ index = BuildIndex(cat)
        /\ year_index = BuildYearIndex(cat)
        /\ num_results = n
        /\ no_result_message = DefaultNoResultMessage
        /\ top_rated_movies = TopRatedMovies(cat, n)
        /\ call = [op |-> "none", query |-> <<>>, year |-> 0]
        /\ steps = <<>>
        /\ cand = <<>>
        /\ out = NoOutput

\* ------------------------------------------------------------- year lookup

\* get_movies_by_year(year_index, year, num_results) of search_utils: the
\* ranking of the year's movies, or the no-result signal when the year has no
\* entry or an empty one.  It is given the year index, the year and the limit
\* only.
GetMoviesByYearUtil(yidx, year, n) ==
    IF year \in DOMAIN yidx /\ yidx[year] # <<>>
    THEN PrintResults(SortByRating(movies, yidx[year], n), n)
    ELSE YearNoResult

YearBucket(yidx, year) == IF year \in DOMAIN yidx THEN yidx[year] ELSE <<>>

\* Search.get_movies_by_year(year): the wrapper passes self.year_index, year
\* and self.num_results, and returns nothing.
SearchGetMoviesByYear(year) == GetMoviesByYearUtil(year_index, year, num_results)

\* ----------------------------------------------------------- perform_search

\* print_results(sort_by_rating(movies, self.num_results), self.num_results)
ShowRanked(ms) ==
    PrintResults(SortByRating(movies, ms, num_results), num_results)

\* The full match answered: its ranking is printed and the call returns.
ExactOutcome(q) ==
    LET full == PerformFullQuerySearch(index, q)
    IN [steps |-> <<"exact">>, cand |-> full, out |-> ShowRanked(full)]

\* The query is a date: the year lookup answers, whatever it finds.
YearOutcome(q) ==
    LET date == TryParseDate(q)[1]
    IN [steps |-> <<"exact", "date", "year">>,
        cand |-> YearBucket(year_index, date.year),
        out |-> SearchGetMoviesByYear(date.year)]

\* The keyword search, and the no-result message when its set is empty: the
\* outcomes the stage can have, one for each listing of the result set.
KeywordStage(q) ==
    LET result_set == KeywordResultSet(index, q)
    IN IF result_set # {}
       THEN {[steps |-> <<"exact", "date", "chunked", "keyword">>,
              cand |-> l,
              out |-> ShowRanked(l)] : l \in KeywordCandidates(index, q)}
       ELSE {[steps |-> <<"exact", "date", "chunked", "keyword">>,
              cand |-> <<>>,
              out |-> PrintNoResultMessage(no_result_message,
                                           top_rated_movies)]}

\* Variant: the no-result message follows an empty chunked match directly.
TextFallback_no_keyword(q) ==
    LET chunked == PerformChunkedQuerySearch(index, q)
    IN IF chunked # <<>>
       THEN {[steps |-> <<"exact", "date", "chunked">>, cand |-> chunked,
              out |-> ShowRanked(chunked)]}
       ELSE {[steps |-> <<"exact", "date", "chunked">>, cand |-> <<>>,
              out |-> PrintNoResultMessage(no_result_message,
                                           top_rated_movies)]}
\* Variant: the keyword search is run without trying the chunked match.
TextFallback_skips_chunked(q) == KeywordStage(q)
\* The query is not a date: the chunked match, then the keyword search.
TextFallback(q) ==
    LET chunked == PerformChunkedQuerySearch(index, q)
    IN IF chunked # <<>>
       THEN {[steps |-> <<"exact", "date", "chunked">>, cand |-> chunked,
              out |-> ShowRanked(chunked)]}
       ELSE KeywordStage(q)

\* Variant: the chunked match is tried before the date parse.
AfterExact_chunked_first(q) ==
    IF PerformChunkedQuerySearch(index, q) # <<>>
    THEN TextFallback(q)
    ELSE IF TryParseDate(q) # None THEN {YearOutcome(q)} ELSE TextFallback(q)
\* No full match: the date parse decides between the year lookup and the text
\* strategies.
AfterExact(q) ==
    IF TryParseDate(q) # None THEN {YearOutcome(q)} ELSE TextFallback(q)

\* Variant: the date parse is tried before the full match.
Resolve_date_first(q) ==
    IF TryParseDate(q) # None
    THEN {YearOutcome(q)}
    ELSE IF PerformFullQuerySearch(index, q) # <<>>
         THEN {ExactOutcome(q)}
         ELSE TextFallback(q)
\* perform_search(query), from the full match down: the outcomes the call can
\* have.
Resolve(q) ==
    IF PerformFullQuerySearch(index, q) # <<>>
    THEN {ExactOutcome(q)}
    ELSE AfterExact(q)

\* Variant: a printed result is stored as the top-rated list.
SessionAfter_caches_result(o) ==
    [movies |-> movies, index |-> index, year_index |-> year_index,
     num_results |-> num_results, no_result_message |-> no_result_message,
     top_rated_movies |-> IF o.kind = "results" THEN o.list ELSE top_rated_movies]
\* The fields of the session after a call that handed o to the sink: neither
\* method assigns to a field of self.
SessionAfter(o) ==
    [movies |-> movies, index |-> index, year_index |-> year_index,
     num_results |-> num_results, no_result_message |-> no_result_message,
     top_rated_movies |-> top_rated_movies]

Returned(o) ==
    \E after \in {SessionAfter(o)} :
        /\ movies' = after.movies
        /\ index' = after.index
        /\ year_index' = after.year_index
        /\ num_results' = after.num_results
        /\ no_result_message' = after.no_result_message
        /\ top_rated_movies' = after.top_rated_movies
        /\ UNCHANGED tie_break

\* The session is idle: the sink holds no output of a call.
NoCall == [op |-> "none", query |-> <<>>, year |-> 0]
Idle == call = NoCall

PerformSearch(q) ==
    /\ Idle
    /\ \E r \in Resolve(q) :
        /\ call' = [op |-> "perform_search", query |-> q, year |-> 0]
        /\ steps' = r.steps
        /\ cand' = r.cand
        /\ out' = r.out
        /\ Returned(r.out)

\* A direct call of the public method get_movies_by_year(year).
YearArgs == {TryParseDate(q)[1].year : q \in {x \in Queries : TryParseDate(x) # None}}
GetMoviesByYear(y) ==
    /\ Idle
    /\ \E o \in {SearchGetMoviesByYear(y)} :
        /\ call' = [op |-> "get_movies_by_year", query |-> <<>>, year |-> y]
        /\ steps' = <<"year">>
        /\ cand' = YearBucket(year_index, y)
        /\ out' = o
        /\ Returned(o)

\* One query is resolved start to finish before the next begins: the sink has
\* displayed the output of the call and the session takes the next query.
Consume ==
    /\ ~Idle
    /\ call' = NoCall
    /\ steps' = <<>>
    /\ cand' = <<>>
    /\ out' = NoOutput
    /\ UNCHANGED <<session, tie_break>>

Next ==
    \/ \E q \in Queries : PerformSearch(q)
    \/ \E y \in YearArgs : GetMoviesByYear(y)
    \/ Consume

Spec == Init /\ [][Next]_vars

\* ------------------------------------------------------------------ claims

Searched == call.op = "perform_search"
ExactEmpty == PerformFullQuerySearch(index, call.query) = <<>>
IsDate == TryParseDate(call.query) # None
ChunkedEmpty == PerformChunkedQuerySearch(index, call.query) = <<>>
NoDuplicates(list) ==
    \A i, j \in 1..Len(list) : i # j => list[i] # list[j]
AllUnrated(list) == \A i \in 1..Len(list) : ~HasRating(movies, list[i])
AllRated(list) == \A i \in 1..Len(list) : HasRating(movies, list[i])

\* w is a whitespace-delimited token of s: a maximal run of non-space
\* characters.
IsTokenOf(w, s) ==
    \E i, j \in 1..Len(s) :
        /\ i <= j
        /\ w = SubSeq(s, i, j)
        /\ \A k \in i..j : s[k] # " "
        /\ i = 1 \/ s[i - 1] = " "
        /\ j = Len(s) \/ s[j + 1] = " "

\* The movies of the index keys that are tokens of the lower-cased query.
KeywordUnion ==
    UNION {Range(index[k]) :
           k \in {x \in DOMAIN index : IsTokenOf(x, Lower(call.query))}}

\* list holds rated movies only, in non-increasing order of rating.
InRankOrder(list) ==
    /\ AllRated(list)
    /\ \A i, j \in 1..Len(list) :
        i < j => RatingOf(movies, list[i])[1] >= RatingOf(movies, list[j])[1]

\* C1: when the full-query match of a searched query is non-empty, only that
\* strategy is consulted, and the sink receives exactly the ranking of the
\* full-match movies, not the no-result message.
C1_ExactWins ==
    (Searched /\ ~ExactEmpty) =>
        /\ steps = <<"exact">>
        /\ cand = PerformFullQuerySearch(index, call.query)
        /\ out = PrintResults(SortByRating(movies, cand, num_results), num_results)
        /\ Range(out.list) \subseteq Range(index[Lower(call.query)])

\* The full match answered a query that is also a date and whose year has
\* movies the full match does not have.
C1_Witness ==
    /\ Searched /\ ~ExactEmpty /\ IsDate
    /\ out.kind = "results"
    /\ Range(YearBucket(year_index, TryParseDate(call.query)[1].year))
           # Range(cand)

\* C2: when the full-query match is empty and the query parses as a date, the
\* year lookup is called with the parsed year and neither the chunked nor the
\* keyword match is consulted: the outcome is the ranking of that year's
\* movies, cut to num_results, or the no-result outcome.
C2_DateShortCircuits ==
    (Searched /\ ExactEmpty /\ IsDate) =>
        LET y == TryParseDate(call.query)[1].year
        IN /\ steps = <<"exact", "date", "year">>
           /\ IF y \in DOMAIN year_index
              THEN /\ cand = year_index[y]
                   /\ out = PrintResults(
                                SortByRating(movies, year_index[y], num_results),
                                num_results)
                   /\ \A i \in 1..Len(out.list) : movies[out.list[i]].year = y
              ELSE out.kind = "no_result" /\ cand = <<>>

\* A date query without a full match that the chunked match would have
\* answered with other movies than the year lookup did.
C2_Witness ==
    /\ Searched /\ ExactEmpty /\ IsDate
    /\ ~ChunkedEmpty
    /\ out.kind = "results"
    /\ Range(PerformChunkedQuerySearch(index, call.query)) # Range(cand)

\* C3: when a searched query is a date whose year has no movies, the sink
\* receives the no-result message together with the precomputed top-rated list,
\* as it does when every text strategy fails.
C3_YearMissShowsTopRated ==
    (Searched /\ ExactEmpty /\ IsDate
     /\ YearBucket(year_index, TryParseDate(call.query)[1].year) = <<>>) =>
        /\ out.kind = "no_result"
        /\ out.top = top_rated_movies

\* C4: whichever strategy answers, the list handed to the sink holds each
\* movie at most once.
C4_NoDuplicateMovies ==
    out.kind = "results" => NoDuplicates(out.list)

\* The keyword search answered a query with two different tokens that both map
\* to a movie of the result.
C4_Witness ==
    /\ Searched /\ steps = <<"exact", "date", "chunked", "keyword">>
    /\ out.kind = "results"
    /\ \E k1, k2 \in DOMAIN index :
        /\ k1 # k2
        /\ IsTokenOf(k1, Lower(call.query)) /\ IsTokenOf(k2, Lower(call.query))
        /\ \E m \in Range(out.list) : m \in Range(index[k1]) \cap Range(index[k2])

\* C5: every ranked list (a call's result and the top-rated list) has at most
\* num_results entries and is in non-increasing rating order, and the order
\* of equal ratings is deterministic: ranking the candidate set of the query
\* again gives the same sequence, whichever outcome the search can have.
C5_RankedBoundedSorted ==
    /\ Len(top_rated_movies) <= num_results
    /\ InRankOrder(top_rated_movies)
    /\ out.kind = "results" =>
        /\ Len(out.list) <= num_results
        /\ InRankOrder(out.list)
        /\ Searched => \A r \in Resolve(call.query) : r.out.list = out.list

\* C6: when the full match is empty, the query is no date and the chunked match
\* is empty, the candidates are exactly the movies mapped to the tokens of the
\* lower-cased query that are index keys; when there are any, their ranking is
\* the result.
C6_KeywordUnion ==
    (Searched /\ ExactEmpty /\ ~IsDate /\ ChunkedEmpty) =>
        /\ Range(cand) = KeywordUnion
        /\ NoDuplicates(cand)
        /\ KeywordUnion # {} =>
            out = PrintResults(SortByRating(movies, cand, num_results),
                               num_results)

\* The keyword search united the different movie sets of two tokens, one of
\* them written in upper case, into more movies than the second has.
C6_Witness ==
    /\ Searched /\ ExactEmpty /\ ~IsDate /\ ChunkedEmpty
    /\ out.kind = "results"
    /\ call.query # Lower(call.query)
    /\ \E k1, k2 \in DOMAIN index :
        /\ IsTokenOf(k1, Lower(call.query)) /\ IsTokenOf(k2, Lower(call.query))
        /\ Range(index[k1]) # Range(index[k2])
        /\ Range(cand) = Range(index[k1]) \cup Range(index[k2])
        /\ Range(cand) # Range(index[k2])

\* C7: a search ends in the no-result message with the top-rated list exactly
\* when the query is no date and the full match, the chunked match and the
\* keyword union are all empty; an empty or whitespace-only query ends so.
C7_NoResultIffAllEmpty ==
    Searched =>
        /\ (out.kind = "no_result" /\ out.has_top)
               <=> (ExactEmpty /\ ~IsDate /\ ChunkedEmpty /\ KeywordUnion = {})
        /\ out.has_top =>
               out.top = top_rated_movies /\ out.msg = no_result_message
        /\ (\A i \in 1..Len(call.query) : call.query[i] = " ") =>
               out.kind = "no_result" /\ out.has_top

\* A whitespace-only query ended in the no-result message of a session whose
\* index and top-rated list are not empty.
C7_Witness ==
    /\ Searched
    /\ Len(call.query) > 0
    /\ \A i \in 1..Len(call.query) : call.query[i] = " "
    /\ out.kind = "no_result" /\ out.has_top
    /\ out.top # <<>>
    /\ DOMAIN index # {}

\* C8: no call changes the word index, the year index, num_results or the
\* top-rated list, and the top-rated list is the ranking of the rated movies
\* of the catalog, as the constructor computed it.
C8_SessionReadOnly ==
    /\ [][/\ index' = index
          /\ year_index' = year_index
          /\ num_results' = num_results
          /\ top_rated_movies' = top_rated_movies]_vars
    /\ [](top_rated_movies
              = SortByRating(movies, RatedMovies(movies), num_results))

\* A call printed a ranked result that is not the top-rated list.
C8_Witness ==
    /\ ~Idle
    /\ out.kind = "results"
    /\ out.list # top_rated_movies
    /\ top_rated_movies # <<>>

\* C9: when the full match is empty and the date parse fails, the call ends
\* with an output, the year index is not consulted, and the chunked match is
\* tried next: if it has movies their ranking is the result and the keyword
\* union is not computed, otherwise the keyword search follows.
C9_NonDateFallsToChunked ==
    (Searched /\ ExactEmpty /\ ~IsDate) =>
        /\ out.kind \in {"results", "no_result"}
        /\ SubSeq(steps, 1, 3) = <<"exact", "date", "chunked">>
        /\ \A i \in 1..Len(steps) : steps[i] # "year"
        /\ IF ~ChunkedEmpty
           THEN /\ steps = <<"exact", "date", "chunked">>
                /\ cand = PerformChunkedQuerySearch(index, call.query)
                /\ out = PrintResults(SortByRating(movies, cand, num_results),
                                      num_results)
           ELSE steps = <<"exact", "date", "chunked", "keyword">>

\* The chunked match answered a non-date query that is no index key.
C9_Witness ==
    /\ Searched /\ ExactEmpty /\ ~IsDate /\ ~ChunkedEmpty
    /\ out.kind = "results"
    /\ out.list # <<>>
    /\ KeywordUnion = {}

\* C10: when the answering strategy matched movies and none of them is rated,
\* the sink still receives matched movies: a non-empty match list never ranks
\* to an empty result.
C10_UnratedMatchesKept ==
    (~Idle /\ cand # <<>> /\ AllUnrated(cand)) =>
        /\ out.kind = "results"
        /\ out.list # <<>>
        /\ Range(out.list) \subseteq Range(cand)

====
